---- MODULE Spec2Model ----
(***************************************************************************)
(* Model of syntpump/declensor, src/dclua/dclua.py: the declension engine  *)
(* (class Declensor), the trainer (DeclenseTrainer.analyze) and the        *)
(* generalizer (DeclenseTrainer.generalizeModel).                          *)
(*                                                                         *)
(* Python values are modelled as tagged nodes:                             *)
(*   None          -> [k |-> "none", s |-> <<>>, items |-> <<>>]            *)
(*   str           -> [k |-> "str",  s |-> <<chars>>, items |-> <<>>]       *)
(*   list          -> [k |-> "list", s |-> <<>>, items |-> <<nodes>>]       *)
(* A word is a sequence of characters; a character is a one-letter name:   *)
(*   "j" = U+0439, "soft" = U+044C, "a" "i" "u" "e" = U+0430 U+0456 U+0443 *)
(*   U+0435, "ya" "yi" "yu" "ye" = U+044F U+0457 U+044E U+0454; any other   *)
(*   name ("k", "m", "v", "t") is a letter the normalizer never touches.   *)
(* Python indices are 0-based, TLA+ sequences 1-based: li[i] is            *)
(* items[i + 1].                                                           *)
(***************************************************************************)
EXTENDS Integers, Sequences, FiniteSets, TLC

VARIABLES
    rules,      \* Declensor.rules, the engine's rule list
    supplied,   \* the argument of the last setModel call
    call,       \* the last declense call and its outcome
    back,       \* the call that declines call's result back
    declensions, \* analyze: the dict, as its (vector, form) pairs in order
    minsize,    \* analyze: the argument minsize
    rootSize,   \* analyze: the local rootSize
    analyzeRule, \* analyze: the local rule, the tree being built
    tpc,        \* analyze: the position in the function body
    ti,         \* analyze: the pair the insertion loop is at
    heap,       \* generalizeModel: the rule objects, by address
    inputModels, \* generalizeModel: the caller's list, as addresses
    model,      \* generalizeModel: the local model, as addresses
    groups,     \* generalizeModel: the argument groups
    threshold,  \* generalizeModel: the argument threshold, <<num, den>>
    maxLength,  \* generalizeModel: max(lengths)
    extended,   \* generalizeModel: the local extended, groups of addresses
    gGroup,     \* generalizeModel: the group the outer loop is at
    gIndex,     \* generalizeModel: the index the inner loop is at
    gpc,        \* generalizeModel: the position in the function body
    result      \* generalizeModel: the returned list

engineVars == <<rules, supplied, call, back>>

trainerVars == <<declensions, minsize, rootSize, analyzeRule, tpc, ti>>

generalizerVars == <<heap, inputModels, model, groups, threshold, maxLength,
                     extended, gGroup, gIndex, gpc, result>>

vars == <<engineVars, trainerVars, generalizerVars>>

----
\* Python values

None == [k |-> "none", s |-> <<>>, items |-> <<>>]

Str(chars) == [k |-> "str", s |-> chars, items |-> <<>>]

List(nodes) == [k |-> "list", s |-> <<>>, items |-> nodes]

\* bool(x): None, "" and [] are falsy
Truthy(x) ==
    CASE x.k = "none" -> FALSE
      [] x.k = "str" -> x.s # <<>>
      [] OTHER -> x.items # <<>>

\* len(x) of a str or a list
PyLen(x) == IF x.k = "str" THEN Len(x.s) ELSE Len(x.items)

\* word[-n:] for n >= 0 (word[-0:] is the whole word)
PyLast(word, n) ==
    IF n = 0 \/ n >= Len(word) THEN word
    ELSE SubSeq(word, Len(word) - n + 1, Len(word))

\* word[:-n] for n >= 0 (word[:-0] is empty)
PyDropLast(word, n) ==
    IF n = 0 \/ n >= Len(word) THEN <<>>
    ELSE SubSeq(word, 1, Len(word) - n)

\* word[r:] for any integer r (a negative r counts from the end)
PyFrom(word, r) ==
    IF r >= 0
    THEN IF r >= Len(word) THEN <<>> ELSE SubSeq(word, r + 1, Len(word))
    ELSE PyLast(word, IF -r >= Len(word) THEN Len(word) ELSE -r)

\* word[:r] for r >= 0
PyTo(word, r) == IF r >= Len(word) THEN word ELSE SubSeq(word, 1, r)

----
\* Declensor

RECURSIVE getZero(_)
getZero(li) == IF li.k = "list" THEN getZero(li.items[1]) ELSE li

\* sorted(rules, key, reverse=True): stable, equal keys keep their order
RECURSIVE InsertDesc(_, _)
InsertDesc(sortedRules, m) ==
    IF sortedRules = <<>> THEN <<m>>
    ELSE IF PyLen(getZero(Head(sortedRules))) >= PyLen(getZero(m))
         THEN <<Head(sortedRules)>> \o InsertDesc(Tail(sortedRules), m)
         ELSE <<m>> \o sortedRules

\* a sort without reverse=True
RECURSIVE InsertAsc(_, _)
InsertAsc(sortedRules, m) ==
    IF sortedRules = <<>> THEN <<m>>
    ELSE IF PyLen(getZero(Head(sortedRules))) <= PyLen(getZero(m))
         THEN <<Head(sortedRules)>> \o InsertAsc(Tail(sortedRules), m)
         ELSE <<m>> \o sortedRules

RECURSIVE setModelAscending(_)
setModelAscending(rs) ==
    IF rs = <<>> THEN <<>>
    ELSE InsertAsc(setModelAscending(SubSeq(rs, 1, Len(rs) - 1)), rs[Len(rs)])

RECURSIVE setModelRules(_)
setModelRules(rs) ==
    IF rs = <<>> THEN <<>>
    ELSE InsertDesc(setModelRules(SubSeq(rs, 1, Len(rs) - 1)), rs[Len(rs)])

\* the replacement pairs of _fitOrthography, in order
replacements == <<
    <<"j", "a", "ya">>, <<"j", "i", "yi">>, <<"j", "u", "yu">>, <<"j", "e", "ye">>,
    <<"soft", "a", "ya">>, <<"soft", "i", "i">>, <<"soft", "u", "yu">>,
    <<"soft", "e", "ye">> >>

\* str.replace(old, new) for a two-character old: leftmost, non-overlapping
RECURSIVE PyReplace(_, _)
PyReplace(word, pair) ==
    IF Len(word) < 2 THEN word
    ELSE IF word[1] = pair[1] /\ word[2] = pair[2]
         THEN <<pair[3]>> \o PyReplace(SubSeq(word, 3, Len(word)), pair)
         ELSE <<word[1]>> \o PyReplace(Tail(word), pair)

RECURSIVE FitFrom(_, _)
FitFrom(word, i) ==
    IF i > Len(replacements) THEN word
    ELSE FitFrom(PyReplace(word, replacements[i]), i + 1)

fitOrthography(word) == FitFrom(word, 1)

\* _findInRule._search: the found suffix (a str node) or None
RECURSIVE search(_, _)
search(li, word) ==
    IF li = <<>> THEN None
    ELSE LET el == Head(li) IN
         IF ~Truthy(el) THEN search(Tail(li), word)
         ELSE IF el.k = "str" /\ el.s = PyLast(word, Len(el.s)) THEN el
         ELSE IF el.k = "list"
              THEN LET found == search(el.items, word) IN
                   IF Truthy(found) THEN found ELSE search(Tail(li), word)
              ELSE search(Tail(li), word)

findInRule(word, rule) == search(rule.items, word)

NotFound == [found |-> FALSE, suffix |-> None, rule |-> None]

RECURSIVE FindWordFrom(_, _, _)
FindWordFrom(rs, word, i) ==
    IF i > Len(rs) THEN NotFound
    ELSE LET found == findInRule(word, rs[i]) IN
         IF Truthy(found) THEN [found |-> TRUE, suffix |-> found, rule |-> rs[i]]
         ELSE FindWordFrom(rs, word, i + 1)

findWordInModel(rs, word) == FindWordFrom(rs, word, 1)

RECURSIVE getByCoord(_, _)
getByCoord(array, vector) ==
    IF vector # <<>> /\ array.k = "list"
    THEN IF vector[1] + 1 > Len(array.items) THEN None
         ELSE getByCoord(array.items[vector[1] + 1], Tail(vector))
    ELSE array

RECURSIVE FindRuleFrom(_, _, _, _)
FindRuleFrom(rs, word, properties, i) ==
    IF i > Len(rs) THEN NotFound
    ELSE LET suffix == getByCoord(rs[i], properties) IN
         IF ~Truthy(suffix) THEN NotFound
         ELSE IF suffix.k = "str" /\ PyLast(word, Len(suffix.s)) = suffix.s
              THEN [found |-> TRUE, suffix |-> suffix, rule |-> rs[i]]
              ELSE FindRuleFrom(rs, word, properties, i + 1)

\* a lookup that goes on to the next rule when a rule lacks the coordinate
RECURSIVE FindRuleFallback(_, _, _, _)
FindRuleFallback(rs, word, properties, i) ==
    IF i > Len(rs) THEN NotFound
    ELSE LET suffix == getByCoord(rs[i], properties) IN
         IF Truthy(suffix) /\ suffix.k = "str" /\ PyLast(word, Len(suffix.s)) = suffix.s
         THEN [found |-> TRUE, suffix |-> suffix, rule |-> rs[i]]
         ELSE FindRuleFallback(rs, word, properties, i + 1)

findRuleFallback(rs, word, properties) == FindRuleFallback(rs, word, properties, 1)

findRule(rs, word, properties) == FindRuleFrom(rs, word, properties, 1)

\* a replacement that cuts len(newsuffix) characters off the word
changePropertiesNewLen(word, suffix, rule, properties) ==
    LET newsuffix == getByCoord(rule, properties) IN
    IF ~Truthy(suffix) \/ ~Truthy(newsuffix)
    THEN [outcome |-> "ok", value |-> word]
    ELSE IF newsuffix.k = "list"
         THEN [outcome |-> "TypeError", value |-> <<>>]
         ELSE [outcome |-> "ok",
               value |-> PyDropLast(word, PyLen(newsuffix)) \o newsuffix.s]

\* _changeProperties: str + list raises TypeError
changeProperties(word, suffix, rule, properties) ==
    LET newsuffix == getByCoord(rule, properties) IN
    IF ~Truthy(suffix) \/ ~Truthy(newsuffix)
    THEN [outcome |-> "ok", value |-> word]
    ELSE IF newsuffix.k = "list"
         THEN [outcome |-> "TypeError", value |-> <<>>]
         ELSE [outcome |-> "ok",
               value |-> PyDropLast(word, PyLen(suffix)) \o newsuffix.s]

\* a declense that answers with the word itself when no rule is found
declenseNoRaise(rs, word, newmorph, morphology) ==
    LET rule == IF morphology = <<>> THEN findWordInModel(rs, word)
                ELSE findRule(rs, word, morphology)
        changed == changeProperties(word, rule.suffix, rule.rule, newmorph)
    IN  IF changed.outcome = "ok"
        THEN [outcome |-> "ok", value |-> fitOrthography(changed.value)]
        ELSE changed

\* declense(word, newmorph, morphology); morphology None or () is <<>>
declense(rs, word, newmorph, morphology) ==
    LET rule == IF morphology = <<>> THEN findWordInModel(rs, word)
                ELSE findRule(rs, word, morphology)
    IN  IF ~rule.found THEN [outcome |-> "ModelError", value |-> <<>>]
        ELSE LET changed == changeProperties(word, rule.suffix, rule.rule, newmorph)
             IN  IF changed.outcome = "ok"
                 THEN [outcome |-> "ok", value |-> fitOrthography(changed.value)]
                 ELSE changed

----
\* DeclenseTrainer.analyze

\* _getRootSize._compareTwo: the length of the common prefix, by zip
RECURSIVE compareTwo(_, _)
compareTwo(word1, word2) ==
    IF word1 = <<>> \/ word2 = <<>> THEN 0
    ELSE IF Head(word1) = Head(word2)
         THEN 1 + compareTwo(Tail(word1), Tail(word2))
         ELSE 0

\* the loop of _getRootSize from word i on; comparator is None or a str
RECURSIVE RootSizeFrom(_, _, _)
RootSizeFrom(words, i, comparator) ==
    IF i > Len(words) THEN Len(comparator.s)
    ELSE IF ~Truthy(comparator)
         THEN RootSizeFrom(words, i + 1, Str(words[i]))
         ELSE RootSizeFrom(words, i + 1,
                  Str(PyTo(words[i], compareTwo(words[i], comparator.s))))

getRootSize(words) == RootSizeFrom(words, 1, None)

\* the loop that decreases rootSize, from word i on
RECURSIVE DecreaseFrom(_, _, _, _)
DecreaseFrom(words, i, size, floor) ==
    IF i > Len(words) THEN size
    ELSE LET diff == floor - Len(PyFrom(words[i], size)) IN
         DecreaseFrom(words, i + 1, IF diff > 0 THEN size - diff ELSE size, floor)

\* an enlargement that adds one slot, whatever the index
enlargeListOnce(items, index) ==
    IF Len(items) <= index THEN Append(items, List(<<>>)) ELSE items

\* _enlargeList on the items of a list: pad with None, open a list at index
RECURSIVE enlargeList(_, _)
enlargeList(items, index) ==
    IF Len(items) <= index THEN enlargeList(Append(items, None), index)
    ELSE IF items[index + 1].k = "none"
         THEN [items EXCEPT ![index + 1] = List(<<>>)]
         ELSE items

\* _insertInto(array, value, *vector) on the items of a list; the levels it
\* walks through are lists (the vectors of one dict have one length)
RECURSIVE insertInto(_, _, _)
insertInto(items, value, vector) ==
    LET index == vector[1]
        enlarged == enlargeList(items, index)
    IN  IF Tail(vector) = <<>>
        THEN [enlarged EXCEPT ![index + 1] = value]
        ELSE [enlarged EXCEPT ![index + 1] =
                 List(insertInto(enlarged[index + 1].items, value, Tail(vector)))]

\* declensions.values()
Values(d) == [i \in DOMAIN d |-> d[i][2]]

----
\* DeclenseTrainer.generalizeModel
\* Rule objects live in a heap (a sequence, by address); lists of rules hold
\* addresses, so that copying a rule and changing a rule in place differ.

\* no copy: the very object at addr
deepcopyAlias(h, addr) == [heap |-> h, addr |-> addr]

\* deepcopy(rule): a new object with the value of the one at addr
deepcopy(h, addr) == [heap |-> Append(h, h[addr]), addr |-> Len(h) + 1]

\* _putRecursively(l, index, array) from element i on, in place: the items as
\* they are left, and whether TypeError was raised (enumerate(None))
RECURSIVE PutFrom(_, _, _, _)
PutFrom(l, index, items, i) ==
    IF i > Len(items) THEN [err |-> FALSE, items |-> items]
    ELSE LET el == items[i] IN
         IF el.k = "str"
         THEN PutFrom(l, index,
                  [items EXCEPT ![i] = Str(fitOrthography(
                       PyTo(el.s, index) \o <<l>> \o PyFrom(el.s, index + 1)))],
                  i + 1)
         ELSE IF el.k = "none" THEN [err |-> TRUE, items |-> items]
         ELSE LET sub == PutFrom(l, index, el.items, 1)
                  put == [items EXCEPT ![i] = List(sub.items)]
              IN  IF sub.err THEN [err |-> TRUE, items |-> put]
                  ELSE PutFrom(l, index, put, i + 1)

putRecursively(l, index, items) == PutFrom(l, index, items, 1)

\* _generalize(rule, index, group) from letter i on: the heap afterwards, the
\* addresses of the rules made, and whether TypeError was raised
RECURSIVE GeneralizeFrom(_, _, _, _, _, _)
GeneralizeFrom(h, addr, index, group, i, made) ==
    IF i > Len(group) THEN [err |-> FALSE, heap |-> h, addrs |-> made]
    ELSE LET copy == deepcopy(h, addr)
             put == putRecursively(group[i], index, copy.heap[copy.addr].items)
             h2 == [copy.heap EXCEPT ![copy.addr] = List(put.items)]
         IN  IF put.err THEN [err |-> TRUE, heap |-> h2, addrs |-> made]
             ELSE GeneralizeFrom(h2, addr, index, group, i + 1,
                                 Append(made, copy.addr))

generalize(h, addr, index, group) == GeneralizeFrom(h, addr, index, group, 1, <<>>)

\* a[:index] + a[index + 1:]
Omit(chars, index) == PyTo(chars, index) \o PyFrom(chars, index + 1)

\* what zip iterates over: the characters of a str, the elements of a list
Iter(x) == IF x.k = "str" THEN [i \in 1..Len(x.s) |-> Str(<<x.s[i]>>)] ELSE x.items

\* _rulesAreIdentical(a, b, index): "True", "False" or "TypeError"
\* (None[:index], or zip over None)
RECURSIVE rulesAreIdentical(_, _, _)
RECURSIVE AllIdentical(_, _, _, _)
rulesAreIdentical(a, b, index) ==
    IF a.k = b.k /\ b.k # "list"
    THEN IF a.k = "none" THEN "TypeError"
         ELSE IF Omit(a.s, index) = Omit(b.s, index) THEN "True" ELSE "False"
    ELSE IF a.k = "none" \/ b.k = "none" THEN "TypeError"
         ELSE AllIdentical(Iter(a), Iter(b), index, 1)

\* all(...) over zip(a, b), from pair i on
AllIdentical(as, bs, index, i) ==
    IF i > Len(as) \/ i > Len(bs) THEN "True"
    ELSE LET same == rulesAreIdentical(as[i], bs[i], index) IN
         IF same = "True" THEN AllIdentical(as, bs, index, i + 1) ELSE same

InGroup(letter, group) == \E i \in DOMAIN group : group[i] = letter

\* _deleteGroup(array, group, index) from rule i on; deleted is an address,
\* 0 for None
RECURSIVE DeleteFrom(_, _, _, _, _, _, _, _)
DeleteFrom(h, array, group, index, i, kept, counter, deleted) ==
    IF i > Len(array)
    THEN [err |-> FALSE, result |-> kept, counter |-> counter, deleted |-> deleted]
    ELSE LET r == h[array[i]]
             zero == getZero(r)
             keep == DeleteFrom(h, array, group, index, i + 1,
                                Append(kept, array[i]), counter, deleted)
             delete == DeleteFrom(h, array, group, index, i + 1,
                                  kept, counter + 1, array[i])
             raised == [err |-> TRUE, result |-> kept, counter |-> counter,
                        deleted |-> deleted]
         IN  IF zero.k # "str" THEN raised
             ELSE IF index >= Len(zero.s)
                  THEN DeleteFrom(h, array, group, index, i + 1,
                                  kept, counter, deleted)
             ELSE IF ~InGroup(zero.s[index + 1], group) THEN keep
             ELSE IF deleted # 0 /\ Truthy(h[deleted])
                  THEN LET same == rulesAreIdentical(h[deleted], r, index) IN
                       IF same = "TypeError" THEN raised
                       ELSE IF same = "False" THEN keep ELSE delete
                  ELSE delete

deleteGroup(h, array, group, index) ==
    DeleteFrom(h, array, group, index, 1, <<>>, 0, 0)

\* max(lengths)
RECURSIVE MaxZeroLength(_, _, _)
MaxZeroLength(h, array, i) ==
    IF i > Len(array) THEN 0
    ELSE LET rest == MaxZeroLength(h, array, i + 1)
             this == PyLen(getZero(h[array[i]]))
         IN  IF this > rest THEN this ELSE rest

----
\* Bounds and inputs of the engine

MaxRules == 2

MaxCoord == 1

Coords == 0..MaxCoord

\* the pool's rules have one or two dimensions; a vector may be shorter
Dims == {0, 1, 2}

Vectors == UNION {[1..d -> Coords] : d \in Dims}

Words == {
    <<>>, <<"a">>, <<"u">>, <<"k", "a">>, <<"k", "u">>, <<"j", "u">>,
    <<"j", "a">>, <<"k", "k", "a">>, <<"j", "a", "k", "a">>,
    <<"j", "a", "k", "u">>, <<"k", "j", "a">>, <<"k", "j", "u">> }

RulePool == {
    List(<<Str(<<"a">>), Str(<<>>)>>),
    List(<<Str(<<"k", "a">>), None>>),
    List(<<Str(<<"a">>), Str(<<"u">>)>>),
    List(<<List(<<Str(<<"j", "a">>), Str(<<"j", "u">>)>>),
           List(<<Str(<<"a">>), None>>)>>),
    List(<<Str(<<"k", "u">>), Str(<<"u">>)>>) }

RuleLists == UNION {[1..n -> RulePool] : n \in 0..MaxRules}

Idle == [op |-> "idle", word |-> <<>>, newmorph |-> <<>>, morphology |-> <<>>,
         outcome |-> "none", value |-> <<>>]

CallOf(rs, word, newmorph, morphology) ==
    LET r == declense(rs, word, newmorph, morphology) IN
    [op |-> "declense", word |-> word, newmorph |-> newmorph,
     morphology |-> morphology, outcome |-> r.outcome, value |-> r.value]

----
\* The engine as a state machine

\* Declensor(rules): __init__ calls setModel
GeneralizerIdle ==
    /\ heap = <<>> /\ inputModels = <<>> /\ model = <<>> /\ groups = <<>>
    /\ threshold = <<0, 1>> /\ maxLength = 0 /\ extended = <<>>
    /\ gGroup = 0 /\ gIndex = 0 /\ gpc = "idle" /\ result = <<>>

TrainerIdle ==
    /\ declensions = <<>> /\ minsize = 0 /\ rootSize = 0
    /\ analyzeRule = List(<<>>) /\ tpc = "idle" /\ ti = 0

Init ==
    /\ \E rs \in RuleLists : supplied = rs /\ rules = setModelRules(rs)
    /\ call = Idle
    /\ back = Idle
    /\ TrainerIdle
    /\ GeneralizerIdle

\* setModel(rules), between two declense calls
SetModel ==
    /\ call.op = "idle"
    /\ \E rs \in RuleLists : supplied' = rs /\ rules' = setModelRules(rs)
    /\ call' = Idle
    /\ back' = Idle
    /\ UNCHANGED <<trainerVars, generalizerVars>>

Declense ==
    /\ call.op = "idle"
    /\ \E word \in Words, newmorph \in Vectors, morphology \in Vectors :
          call' = CallOf(rules, word, newmorph, morphology)
    /\ back' = Idle
    /\ UNCHANGED <<rules, supplied, trainerVars, generalizerVars>>

\* the caller declines the result back: declense(result, morphology, newmorph)
DeclenseBack ==
    /\ call.op = "declense" /\ call.outcome = "ok" /\ call.morphology # <<>>
    /\ back.op = "idle"
    /\ back' = CallOf(rules, call.value, call.morphology, call.newmorph)
    /\ UNCHANGED <<rules, supplied, call, trainerVars, generalizerVars>>

\* the caller is done with the result
Return ==
    /\ call.op = "declense"
    /\ call' = Idle
    /\ back' = Idle
    /\ UNCHANGED <<rules, supplied, trainerVars, generalizerVars>>

Next == SetModel \/ Declense \/ DeclenseBack \/ Return

Spec == Init /\ [][Next]_vars

----
\* The trainer as a state machine: one call of analyze(declensions, minsize)

MaxForms == 3

MaxMinsize == 2

TrainCoords == {0, 1}

TrainDims == {1, 2}

Forms == { <<"a">>, <<"a", "b">>, <<"a", "c">>, <<"c", "d">>, <<"a", "b", "c">> }

\* the dicts: up to MaxForms distinct vectors of one length, each with a form
Paradigms ==
    UNION { { [i \in 1..n |-> <<vs[i], fs[i]>>] :
                vs \in {v \in [1..n -> [1..d -> TrainCoords]] :
                           \A i, j \in 1..n : v[i] = v[j] => i = j},
                fs \in [1..n -> Forms] } :
            n \in 1..MaxForms, d \in TrainDims }

EngineIdle ==
    /\ rules = <<>> /\ supplied = <<>> /\ call = Idle /\ back = Idle

InitTrainer ==
    /\ EngineIdle
    /\ GeneralizerIdle
    /\ declensions \in Paradigms
    /\ minsize \in 0..MaxMinsize
    /\ rootSize = 0
    /\ analyzeRule = List(<<>>)
    /\ tpc = "root"
    /\ ti = 0

\* rootSize = DeclenseTrainer._getRootSize(declensions.values())
AnalyzeRoot ==
    /\ tpc = "root"
    /\ rootSize' = getRootSize(Values(declensions))
    /\ tpc' = "decrease"
    /\ UNCHANGED <<engineVars, generalizerVars, declensions, minsize, analyzeRule, ti>>

\* the loop that decreases rootSize when suffixes are shorter than minsize
AnalyzeDecrease ==
    /\ tpc = "decrease"
    /\ rootSize' = DecreaseFrom(Values(declensions), 1, rootSize, minsize)
    /\ analyzeRule' = List(<<>>)
    /\ tpc' = "insert"
    /\ ti' = 1
    /\ UNCHANGED <<engineVars, generalizerVars, declensions, minsize>>

\* one turn of the loop over declensions.items()
AnalyzeInsert ==
    /\ tpc = "insert" /\ ti <= Len(declensions)
    /\ analyzeRule' = List(insertInto(analyzeRule.items,
                               Str(PyFrom(declensions[ti][2], rootSize)),
                               declensions[ti][1]))
    /\ ti' = ti + 1
    /\ UNCHANGED <<engineVars, generalizerVars, declensions, minsize, rootSize, tpc>>

\* return rule
AnalyzeReturn ==
    /\ tpc = "insert" /\ ti > Len(declensions)
    /\ tpc' = "done"
    /\ UNCHANGED <<engineVars, generalizerVars, declensions, minsize, rootSize, analyzeRule, ti>>

NextTrainer == AnalyzeRoot \/ AnalyzeDecrease \/ AnalyzeInsert \/ AnalyzeReturn

SpecTrainer == InitTrainer /\ [][NextTrainer]_vars

----
\* Claims about the trainer

\* the index paths of the nodes below node
RECURSIVE Paths(_)
Paths(node) ==
    IF node.k # "list" THEN {}
    ELSE UNION { {<<i - 1>>} \cup {<<i - 1>> \o p : p \in Paths(node.items[i])} :
                 i \in DOMAIN node.items }

\* the node at an index path of node
RECURSIVE NodeAt(_, _)
NodeAt(node, path) ==
    IF path = <<>> THEN node ELSE NodeAt(node.items[path[1] + 1], Tail(path))

IsPrefix(p, v) == Len(p) <= Len(v) /\ SubSeq(v, 1, Len(p)) = p

\* C7: the returned model resolves every vector of the dict to form[rootSize:]
\* of its form, whatever the order of the pairs, and every position that no
\* vector of the dict addresses holds None.
C7_InsertResolve ==
    tpc = "done" =>
        /\ \A i \in DOMAIN declensions :
               getByCoord(analyzeRule, declensions[i][1])
                   = Str(PyFrom(declensions[i][2], rootSize))
        /\ \A p \in Paths(analyzeRule) :
               \/ \E i \in DOMAIN declensions : IsPrefix(p, declensions[i][1])
               \/ NodeAt(analyzeRule, p) = None

C7_Witness ==
    /\ tpc = "done" /\ Len(declensions) = MaxForms
    /\ declensions[1][1] = <<1, 1>> /\ declensions[2][1] = <<0, 1>>
    /\ NodeAt(analyzeRule, <<0, 0>>) = None
    /\ getByCoord(analyzeRule, <<1, 1>>) = Str(PyFrom(declensions[1][2], rootSize))
    /\ rootSize > 0 /\ PyFrom(declensions[1][2], rootSize) # <<>>
    /\ declensions[1][2] # declensions[2][2]

\* C8: the root size after the decrease is not negative, not larger than the
\* common-prefix length computed first, cuts the same characters off every
\* form, and leaves every form a suffix of at least minsize characters. The
\* forms considered here all have at least minsize characters.
C8_RootSize ==
    (tpc \in {"insert", "done"}
        /\ \A i \in DOMAIN declensions : Len(declensions[i][2]) >= minsize)
    => /\ rootSize >= 0
       /\ rootSize <= getRootSize(Values(declensions))
       /\ \A i, j \in DOMAIN declensions :
              PyTo(declensions[i][2], rootSize) = PyTo(declensions[j][2], rootSize)
       /\ \A i \in DOMAIN declensions :
              Len(PyFrom(declensions[i][2], rootSize)) >= minsize


----
\* The generalizer as a state machine: one call of
\* generalizeModel(model, groups, threshold)

MaxModels == 3

MaxGroups == 2

GenPool == {
    List(<<Str(<<"a", "m">>), Str(<<"a", "m", "u">>)>>),
    List(<<Str(<<"a", "v">>), Str(<<"a", "v", "u">>)>>),
    List(<<Str(<<"a">>), Str(<<"u">>)>>),
    List(<<Str(<<"a", "v">>), None>>),
    List(<<List(<<Str(<<"a", "m">>)>>), List(<<Str(<<"a", "m", "u">>)>>)>>) }

GroupPool == { <<"m", "v", "j">>, <<"a", "u">> }

\* threshold as <<numerator, denominator>>: 0.0, 0.5, 1.0
Thresholds == { <<0, 1>>, <<1, 2>>, <<1, 1>> }

InitGeneralizer ==
    /\ EngineIdle
    /\ TrainerIdle
    /\ \E n \in 1..MaxModels :
          /\ heap \in [1..n -> GenPool]
          /\ inputModels = [i \in 1..n |-> i]
    /\ model = inputModels
    /\ \E n \in 1..MaxGroups : groups \in [1..n -> GroupPool]
    /\ threshold \in Thresholds
    /\ maxLength = 0
    /\ extended = <<>>
    /\ gGroup = 0
    /\ gIndex = 0
    /\ gpc = "start"
    /\ result = <<>>

\* lengths = [...]; extended = list()
GeneralizeStart ==
    /\ gpc = "start"
    /\ maxLength' = MaxZeroLength(heap, model, 1)
    /\ extended' = <<>>
    /\ gGroup' = 1
    /\ gIndex' = 0
    /\ gpc' = "loop"
    /\ UNCHANGED <<engineVars, trainerVars, heap, inputModels, model, groups,
                   threshold, result>>

\* the next turn of "for group in groups: for index in range(0, max + 1)"
Advance ==
    IF gIndex < maxLength
    THEN gIndex' = gIndex + 1 /\ UNCHANGED <<gGroup, gpc>>
    ELSE IF gGroup < Len(groups)
         THEN gGroup' = gGroup + 1 /\ gIndex' = 0 /\ UNCHANGED gpc
         ELSE gpc' = "return" /\ UNCHANGED <<gGroup, gIndex>>

Deleted == deleteGroup(heap, model, groups[gGroup], gIndex)

\* counter < len(group) * threshold or not element
TooFew(d) ==
    IF d.counter * threshold[2] < Len(groups[gGroup]) * threshold[1] THEN TRUE
    ELSE IF d.deleted = 0 THEN TRUE
    ELSE ~Truthy(heap[d.deleted])

\* a turn that takes "continue"
GeneralizeSkip ==
    /\ gpc = "loop"
    /\ ~Deleted.err /\ TooFew(Deleted)
    /\ Advance
    /\ UNCHANGED <<engineVars, trainerVars, heap, inputModels, model, groups,
                   threshold, maxLength, extended, result>>

\* a turn that generalizes: extended.append(_generalize(...)); model = reduced
GeneralizeGroup ==
    /\ gpc = "loop"
    /\ ~Deleted.err /\ ~TooFew(Deleted)
    /\ LET made == generalize(heap, Deleted.deleted, gIndex, groups[gGroup]) IN
       /\ ~made.err
       /\ heap' = made.heap
       /\ extended' = Append(extended, made.addrs)
    /\ model' = Deleted.result
    /\ Advance
    /\ UNCHANGED <<engineVars, trainerVars, inputModels, groups, threshold,
                   maxLength, result>>

\* a turn in which _deleteGroup or _generalize raises TypeError
GeneralizeRaise ==
    /\ gpc = "loop"
    /\ \/ Deleted.err /\ UNCHANGED heap
       \/ /\ ~Deleted.err /\ ~TooFew(Deleted)
          /\ LET made == generalize(heap, Deleted.deleted, gIndex, groups[gGroup]) IN
             made.err /\ heap' = made.heap
    /\ gpc' = "TypeError"
    /\ UNCHANGED <<engineVars, trainerVars, inputModels, model, groups, threshold,
                   maxLength, extended, gGroup, gIndex, result>>

\* return model + extended: the rules left, then the groups of rules made
GeneralizeReturn ==
    /\ gpc = "return"
    /\ result' = [i \in DOMAIN model |-> [group |-> FALSE, addrs |-> <<model[i]>>]]
                 \o [i \in DOMAIN extended |-> [group |-> TRUE, addrs |-> extended[i]]]
    /\ gpc' = "done"
    /\ UNCHANGED <<engineVars, trainerVars, heap, inputModels, model, groups,
                   threshold, maxLength, extended, gGroup, gIndex>>

NextGeneralizer ==
    \/ GeneralizeStart
    \/ GeneralizeSkip
    \/ GeneralizeGroup
    \/ GeneralizeRaise
    \/ GeneralizeReturn

SpecGeneralizer == InitGeneralizer /\ [][NextGeneralizer]_vars

----
\* Claims about the engine

\* the match declense works with: blind search, or lookup by coordinates
MatchOf(c) ==
    IF c.morphology = <<>> THEN findWordInModel(rules, c.word)
    ELSE findRule(rules, c.word, c.morphology)

\* word ends with the characters of suffix
EndsWith(word, suffix) ==
    Len(suffix) <= Len(word) /\ SubSeq(word, Len(word) - Len(suffix) + 1, Len(word)) = suffix

RECURSIVE StrLeaves(_)
StrLeaves(node) ==
    IF node.k = "str" THEN {node.s}
    ELSE IF node.k = "list"
         THEN UNION {StrLeaves(node.items[i]) : i \in DOMAIN node.items}
         ELSE {}

\* C1: when declense finds a match (s, m) and the target vector resolves in m
\* to a suffix string t, the empty string included, the result is
\* normalize(word[:-len(s)] + t).
C1_ReplacesSuffix ==
    call.op = "declense" =>
        LET m == MatchOf(call)
            t == getByCoord(m.rule, call.newmorph)
        IN  (m.found /\ t.k = "str") =>
                /\ call.outcome = "ok"
                /\ call.value =
                       fitOrthography(PyDropLast(call.word, Len(m.suffix.s)) \o t.s)

\* C2: when declense matches a model and the suffix at the target coordinates
\* is absent, the result is the input word, character for character.
C2_AbsentReturnsWord ==
    call.op = "declense" =>
        LET m == MatchOf(call)
            t == getByCoord(m.rule, call.newmorph)
        IN  (m.found /\ (m.suffix.k = "none" \/ t.k = "none")) =>
                call.outcome = "ok" /\ call.value = call.word

\* no model of rs matches word: no leaf is a trailing match (blind search), or
\* no model is reached by the lookup with a trailing match at vector
NoModelMatches(rs, word, vector) ==
    IF vector = <<>>
    THEN \A i \in DOMAIN rs : \A leaf \in StrLeaves(rs[i]) :
             leaf = <<>> \/ ~EndsWith(word, leaf)
    ELSE \A i \in DOMAIN rs :
             \/ \E j \in 1..(i - 1) : ~Truthy(getByCoord(rs[j], vector))
             \/ LET suffix == getByCoord(rs[i], vector) IN
                ~(suffix.k = "str" /\ suffix.s # <<>> /\ EndsWith(word, suffix.s))

\* C3: a declense call on a word no model matches raises ModelError and
\* nothing else, and leaves the rule list as it was.
C3_NoRuleFound ==
    [][(call.op = "idle" /\ call'.op = "declense"
            /\ NoModelMatches(rules, call'.word, call'.morphology))
        => (call'.outcome = "ModelError" /\ rules' = rules)]_vars

C3_Witness ==
    /\ call.op = "declense" /\ call.outcome = "ModelError"
    /\ call.morphology # <<>> /\ Len(rules) = MaxRules
    /\ NoModelMatches(rules, call.word, call.morphology)
    /\ Truthy(getByCoord(rules[1], call.morphology))

\* rs[i] is the model the lookup of word at vector selects
SelectedAt(rs, i, word, vector) ==
    /\ \A j \in 1..(i - 1) :
           LET sj == getByCoord(rs[j], vector) IN
           sj.k = "str" /\ sj.s # <<>> /\ ~EndsWith(word, sj.s)
    /\ LET si == getByCoord(rs[i], vector) IN
       si.k = "str" /\ si.s # <<>> /\ EndsWith(word, si.s)

\* the premises of the round trip for the model at position i
RoundTripCase(i) ==
    /\ back.op = "declense" /\ call.newmorph # <<>>
    /\ SelectedAt(rules, i, call.word, call.morphology)
    /\ LET sB == getByCoord(rules[i], call.newmorph) IN sB.k = "str" /\ sB.s # <<>>

\* the normalizer changes neither the word nor the word with the suffix of
\* rules[i] at A replaced by the one at B
NormalizerIdle(i) ==
    /\ fitOrthography(call.word) = call.word
    /\ LET sA == getByCoord(rules[i], call.morphology)
           sB == getByCoord(rules[i], call.newmorph)
           mid == PyDropLast(call.word, Len(sA.s)) \o sB.s
       IN  fitOrthography(mid) = mid

\* C4 as claimed: with any rule list, declining w from A to B and back returns
\* w whenever the matched model has a non-empty suffix at A and at B and the
\* normalizer leaves the intermediate and the final word as they are.
C4_RoundTripAnyRules ==
    \A i \in DOMAIN rules :
        (RoundTripCase(i) /\ NormalizerIdle(i))
        => (back.outcome = "ok" /\ back.value = call.word)

\* C4 amended: the round trip returns w when, besides, every model before the
\* matched one resolves B to a non-empty suffix string that does not end the
\* intermediate word (so the way back selects the same model).
C4_RoundTrip ==
    \A i \in DOMAIN rules :
        (/\ RoundTripCase(i) /\ NormalizerIdle(i)
         /\ \A j \in 1..(i - 1) :
                LET sj == getByCoord(rules[j], call.newmorph) IN
                sj.k = "str" /\ sj.s # <<>> /\ ~EndsWith(call.value, sj.s))
        => (back.outcome = "ok" /\ back.value = call.word)

C4_Witness ==
    \E i \in DOMAIN rules :
        /\ i > 1
        /\ RoundTripCase(i) /\ NormalizerIdle(i)
        /\ \A j \in 1..(i - 1) :
               LET sj == getByCoord(rules[j], call.newmorph) IN
               sj.k = "str" /\ sj.s # <<>> /\ ~EndsWith(call.value, sj.s)
        /\ Len(getByCoord(rules[i], call.morphology).s)
               # Len(getByCoord(rules[i], call.newmorph).s)
        /\ back.value = call.word /\ call.value # call.word

Count(seq, x) == Cardinality({i \in DOMAIN seq : seq[i] = x})

\* C5: the rule list is a permutation of the rules last supplied, in order of
\* non-increasing length of the zero-coordinate suffix.
C5_SortedByZero ==
    /\ Len(rules) = Len(supplied)
    /\ \A i \in DOMAIN supplied : Count(rules, supplied[i]) = Count(supplied, supplied[i])
    /\ \A i, j \in DOMAIN rules :
           i < j => PyLen(getZero(rules[i])) >= PyLen(getZero(rules[j]))

C5_Witness ==
    /\ Len(supplied) = MaxRules
    /\ PyLen(getZero(supplied[1])) < PyLen(getZero(supplied[Len(supplied)]))
    /\ rules # supplied
    /\ call.op = "declense" /\ call.morphology = <<>> /\ call.outcome = "ok"

\* C6: when the first model of the rule list resolves the known coordinates to
\* absent, declense raises ModelError, whatever the later models hold.
C6_NoFallback ==
    (/\ call.op = "declense" /\ call.morphology # <<>> /\ rules # <<>>
     /\ getByCoord(rules[1], call.morphology).k = "none")
    => call.outcome = "ModelError"

C6_Witness ==
    /\ call.op = "declense" /\ call.morphology # <<>> /\ Len(rules) >= 2
    /\ getByCoord(rules[1], call.morphology).k = "none"
    /\ LET later == getByCoord(rules[2], call.morphology) IN
       later.k = "str" /\ later.s # <<>> /\ EndsWith(call.word, later.s)
    /\ call.outcome = "ModelError"

----
\* Claims about the generalizer

\* C9: no step of generalizeModel changes the caller's list of models or any
\* model in it.
C9_InputsUntouched ==
    [][/\ inputModels' = inputModels
       /\ \A i \in DOMAIN inputModels :
              heap'[inputModels[i]] = heap[inputModels[i]]]_vars

C9_Witness ==
    /\ gpc = "done" /\ extended # <<>>
    /\ \E i \in DOMAIN extended : \E j \in DOMAIN extended[i] :
           \A k \in DOMAIN inputModels :
               heap[extended[i][j]] # heap[inputModels[k]]
    /\ \E i \in DOMAIN extended : \E j \in DOMAIN extended[i] :
           heap[extended[i][j]].items[2].k = "str"
               /\ heap[extended[i][j]].items[2].s = <<"a", "yu">>

\* the zero-suffix of the rule at addr has a letter of group at index
ZeroInGroup(addr, index, group) ==
    LET zero == getZero(heap[addr]) IN
    zero.k = "str" /\ index < Len(zero.s) /\ InGroup(zero.s[index + 1], group)

\* C10: a turn that generalizes removes from the working list only models whose
\* zero-suffix has a letter of the group at the index, and the returned list
\* holds every model of the working list.
C10_OnlyGroupRemoved ==
    [][/\ (gpc = "loop" /\ extended' # extended) =>
              \A k \in DOMAIN model :
                  (\A j \in DOMAIN model' : model'[j] # model[k])
                  => ZeroInGroup(model[k], gIndex, groups[gGroup])
       /\ (gpc = "return" /\ gpc' = "done") =>
              \A k \in DOMAIN model :
                  \E j \in DOMAIN result' :
                      ~result'[j].group /\ result'[j].addrs = <<model[k]>>]_vars

\* model + extended as it stands: the rules left, then each group of rules
\* made, a list of rules, as one element
OutputModels(h, left, made) ==
    [i \in DOMAIN left |-> h[left[i]]]
    \o [i \in DOMAIN made |-> List([j \in DOMAIN made[i] |-> h[made[i][j]]])]

\* the zero-suffix of node has letter at index
Carries(node, index, letter) ==
    LET zero == getZero(node) IN
    zero.k = "str" /\ index < Len(zero.s) /\ zero.s[index + 1] = letter

\* C11: after a turn that generalizes, every letter of the group is carried at
\* the index by the zero-suffix of exactly one model of the output.
C11_EachLetterOnce ==
    [][(gpc = "loop" /\ extended' # extended) =>
          LET out == OutputModels(heap', model', extended') IN
          \A i \in DOMAIN groups[gGroup] :
              Cardinality({j \in DOMAIN out :
                  Carries(out[j], gIndex, groups[gGroup][i])}) = 1]_vars

\* the forms agree on their first n characters
CommonPrefix(forms, n) ==
    \A i \in DOMAIN forms :
        /\ n <= Len(forms[i])
        /\ SubSeq(forms[i], 1, n) = SubSeq(forms[1], 1, n)

\* the length of the longest common prefix of the forms
LongestCommonPrefix(forms) ==
    CHOOSE n \in 0..Len(forms[1]) :
        /\ CommonPrefix(forms, n)
        /\ \A m \in 0..Len(forms[1]) : CommonPrefix(forms, m) => m <= n

\* C12: _getRootSize returns the length of the longest common prefix of the
\* forms, whatever their number and order, also when the running common
\* prefix becomes empty before the last form.
C12_RootSizeIsLCP ==
    tpc = "decrease" =>
        rootSize = LongestCommonPrefix(Values(declensions))

\* the suffix strings of a tree, the empty string included, in depth-first
\* pre-order; absent leaves are left out
RECURSIVE LeavesInOrder(_)
LeavesInOrder(node) ==
    LET RECURSIVE Flatten(_)
        Flatten(i) ==
            IF i > Len(node.items) THEN <<>>
            ELSE LeavesInOrder(node.items[i]) \o Flatten(i + 1)
    IN  IF node.k = "str" THEN <<node.s>>
        ELSE IF node.k = "list" THEN Flatten(1)
        ELSE <<>>

\* the positions of the leaves of node that word ends with
Hits(word, node) ==
    {i \in DOMAIN LeavesInOrder(node) : EndsWith(word, LeavesInOrder(node)[i])}

\* the least number of a non-empty set of numbers
Least(S) == CHOOSE n \in S : \A m \in S : n <= m

\* C14: the blind search returns the first leaf, in rule-set order and
\* depth-first pre-order, that the word ends with, an empty-string leaf counted
\* as a suffix string, with the model that owns it; it returns not found only
\* when no leaf of any model is such a suffix.
C14_BlindSearch ==
    (call.op = "declense" /\ call.morphology = <<>>) =>
        LET r == findWordInModel(rules, call.word)
            owners == {i \in DOMAIN rules : Hits(call.word, rules[i]) # {}}
        IN  IF owners = {} THEN ~r.found
            ELSE LET owner == rules[Least(owners)] IN
                 /\ r.found
                 /\ r.rule = owner
                 /\ r.suffix = Str(LeavesInOrder(owner)[Least(Hits(call.word, owner))])

\* the tree of the same shape as node in which every suffix string has the
\* letter put at index and is normalized, and every absent leaf is absent
RECURSIVE Substituted(_, _, _)
Substituted(node, letter, index) ==
    IF node.k = "str"
    THEN Str(fitOrthography(PyTo(node.s, index) \o <<letter>>
                            \o PyFrom(node.s, index + 1)))
    ELSE IF node.k = "list"
         THEN List([i \in DOMAIN node.items |->
                        Substituted(node.items[i], letter, index)])
         ELSE None

\* C13: a turn that is to generalize raises no error and makes, for every
\* letter of the group, a copy of the representative of the same shape, in
\* which every suffix string has the letter at the index and is normalized and
\* every absent leaf stays absent.
C13_CopiesPerLetter ==
    [][(gpc = "loop" /\ ~Deleted.err /\ ~TooFew(Deleted)) =>
          /\ gpc' # "TypeError"
          /\ Len(extended') = Len(extended) + 1
          /\ LET made == extended'[Len(extended')]
                 group == groups[gGroup]
             IN  /\ Len(made) = Len(group)
                 /\ \A i \in DOMAIN group :
                        heap'[made[i]] =
                            Substituted(heap[Deleted.deleted], group[i], gIndex)]_vars

====
